---- MODULE Spec2Model ----
(***************************************************************************)
(* Ride-sharing discrete-event simulation: Location, Rider, Driver,        *)
(* Dispatcher and the five Event kinds of src/ride_sharing_simulation.     *)
(* The event queue and the monitor follow the design document.             *)
(***************************************************************************)
EXTENDS Integers, Sequences, FiniteSets, TLC

VARIABLES rider, driver, waitlist, drivers, queue, log, last, lastcall, requested,
          waited

vars == <<rider, driver, waitlist, drivers, queue, log, last, lastcall, requested,
          waited>>

\* ------------------------------------------------------------------ bounds
MaxTime == 1
MaxPatience == 2
MaxSpeed == 2

RiderSeq == <<"r1", "r2">>
DriverSeq == <<"d1", "d2">>
RiderIds == {RiderSeq[i] : i \in DOMAIN RiderSeq}
DriverIds == {DriverSeq[i] : i \in DOMAIN DriverSeq}
None == "None"
\* the value None of a driver's destination attribute, written as a record so
\* that it compares with Location records
NoDestination == [row |-> -1, column |-> -1]

\* rider.py constants
WAITING == "waiting"
CANCELLED == "cancelled"
SATISFIED == "satisfied"

\* monitor constants imported by event.py
RIDER == "rider"
DRIVER == "driver"
REQUEST == "request"
CANCEL == "cancel"
PICKUP == "pickup"
DROPOFF == "dropoff"

\* ---------------------------------------------------------------- location
Location(row, column) == [row |-> row, column |-> column]

Abs(x) == IF x < 0 THEN -x ELSE x

manhattan_distance(origin, destination) ==
    Abs(destination.row - origin.row) + Abs(destination.column - origin.column)

\* positions used by the simulation runs; every rider travels to Dest
Locs == {Location(0, 0), Location(1, 2)}
Dest == Location(1, 2)
Patiences == 0 .. MaxPatience
AnyPatiences == (-1) .. MaxPatience
Speeds == 1 .. MaxSpeed
Times == 0 .. MaxTime

\* ------------------------------------------------------------------ driver
\* Python 3 round() of n / s for n >= 0, s > 0: nearest integer, ties to even
Round(n, s) ==
    LET q == n \div s
        r == n % s
    IN  IF 2 * r < s THEN q
        ELSE IF 2 * r > s THEN q + 1
        ELSE IF q % 2 = 0 THEN q ELSE q + 1

get_travel_time_Floor(d, destination) ==
    (Abs(destination.row - d.location.row)
       + Abs(destination.column - d.location.column)) \div d.speed

get_travel_time(d, destination) ==
    Round(Abs(destination.row - d.location.row)
          + Abs(destination.column - d.location.column), d.speed)

\* start_drive assigns the attribute "idle" (not is_idle) and returns the time
start_drive_obj(d) == [d EXCEPT !.idle = "False"]

NewDriver(identifier, location, speed) ==
    [identifier |-> identifier, location |-> location, speed |-> speed,
     is_idle |-> TRUE, destination |-> NoDestination, idle |-> "unset"]

\* Driver.__eq__: two Driver objects are equal when their identifiers are
DriverEq(a, b) == a.identifier = b.identifier

NewRider(origin, destination, patience) ==
    [origin |-> origin, destination |-> destination, patience |-> patience,
     status |-> WAITING]

\* ------------------------------------------------------------------ events
Event(kind, timestamp, r, d) ==
    [kind |-> kind, timestamp |-> timestamp, rider |-> r, driver |-> d]

NoEvent == Event("none", 0, None, None)
NoCall == [op |-> "none", arg |-> None, ret |-> None]

RECURSIVE Insert_Before(_, _)
Insert_Before(q, e) ==
    IF q = <<>> THEN <<e>>
    ELSE IF Head(q).timestamp < e.timestamp THEN <<Head(q)>> \o Insert_Before(Tail(q), e)
    ELSE <<e>> \o q

\* queue insertion: after every queued event whose timestamp is <= e's
RECURSIVE Insert(_, _)
Insert(q, e) ==
    IF q = <<>> THEN <<e>>
    ELSE IF Head(q).timestamp <= e.timestamp THEN <<Head(q)>> \o Insert(Tail(q), e)
    ELSE <<e>> \o q

Add_Accept(q, e) == Insert(q, e)

\* an event with a negative timestamp is rejected at insertion
Add(q, e) == IF e.timestamp < 0 THEN q ELSE Insert(q, e)

RECURSIVE AddAll(_, _)
AddAll(q, es) ==
    IF es = <<>> THEN q ELSE AddAll(Add(q, Head(es)), Tail(es))

notify(l, timestamp, kind, action, id, location) ==
    Append(l, [timestamp |-> timestamp, kind |-> kind, action |-> action,
               id |-> id, location |-> location])

\* -------------------------------------------------------------- dispatcher
Range(s) == {s[i] : i \in DOMAIN s}

SetMax(S) == CHOOSE x \in S : \A y \in S : x >= y

SetMin(S) == CHOOSE x \in S : \A y \in S : x <= y

\* the dict built by the loop of request_driver: distance -> driver, a later
\* driver at the same distance replaces the earlier one
RECURSIVE list_of_speeds(_, _, _)
list_of_speeds(ds, drv, origin) ==
    IF ds = <<>> THEN <<>>
    ELSE LET n == Len(ds)
             prev == list_of_speeds(SubSeq(ds, 1, n - 1), drv, origin)
             k == manhattan_distance(drv[ds[n]].location, origin)
         IN  [x \in (DOMAIN prev) \cup {k} |-> IF x = k THEN ds[n] ELSE prev[x]]

\* list.remove(x): drops the first element equal to x
RECURSIVE Remove(_, _)
Remove(s, x) ==
    IF s = <<>> THEN <<>>
    ELSE IF Head(s) = x THEN Tail(s)
    ELSE <<Head(s)>> \o Remove(Tail(s), x)

RemoveDriver_Nothing(ds, drv, d) == ds

\* self.drivers.remove(driver): drops the first roster entry equal to driver
RECURSIVE RemoveDriver(_, _, _)
RemoveDriver(ds, drv, d) ==
    IF ds = <<>> THEN <<>>
    ELSE IF DriverEq(drv[Head(ds)], drv[d]) THEN Tail(ds)
    ELSE <<Head(ds)>> \o RemoveDriver(Tail(ds), drv, d)

DriverIn_Never(ds, drv, d) == FALSE

\* driver in self.drivers
DriverIn(ds, drv, d) == \E i \in DOMAIN ds : DriverEq(drv[ds[i]], drv[d])

request_driver_NoWait(wl, ds, drv, r, origin) ==
    IF ds = <<>>
    THEN [ret |-> None, waitlist |-> wl, drivers |-> ds]
    ELSE LET los == list_of_speeds(ds, drv, origin)
             d == los[SetMin(DOMAIN los)]
         IN  [ret |-> d, waitlist |-> wl, drivers |-> RemoveDriver(ds, drv, d)]

\* request_driver: [ret, waitlist, drivers]
request_driver(wl, ds, drv, r, origin) ==
    IF ds = <<>>
    THEN [ret |-> None, waitlist |-> Append(wl, r), drivers |-> ds]
    ELSE LET los == list_of_speeds(ds, drv, origin)
             d == los[SetMin(DOMAIN los)]
         IN  [ret |-> d, waitlist |-> wl, drivers |-> RemoveDriver(ds, drv, d)]

request_rider_Last(wl, ds, drv, d) ==
    IF wl = <<>>
    THEN IF ~DriverIn(ds, drv, d)
         THEN [ret |-> None, waitlist |-> wl, drivers |-> Append(ds, d)]
         ELSE [ret |-> None, waitlist |-> wl, drivers |-> ds]
    ELSE [ret |-> wl[Len(wl)], waitlist |-> SubSeq(wl, 1, Len(wl) - 1), drivers |-> ds]

request_rider_Register(wl, ds, drv, d) ==
    IF wl = <<>>
    THEN IF ~DriverIn(ds, drv, d)
         THEN [ret |-> None, waitlist |-> wl, drivers |-> Append(ds, d)]
         ELSE [ret |-> None, waitlist |-> wl, drivers |-> ds]
    ELSE [ret |-> Head(wl), waitlist |-> Tail(wl), drivers |-> Append(ds, d)]

\* request_rider: [ret, waitlist, drivers]
request_rider(wl, ds, drv, d) ==
    IF wl = <<>>
    THEN IF ~DriverIn(ds, drv, d)
         THEN [ret |-> None, waitlist |-> wl, drivers |-> Append(ds, d)]
         ELSE [ret |-> None, waitlist |-> wl, drivers |-> ds]
    ELSE [ret |-> Head(wl), waitlist |-> Tail(wl), drivers |-> ds]

\* cancel_ride: the loop removes the rider while iterating; after a removal
\* the iteration index skips the element that moved into the freed slot
RECURSIVE cancel_loop(_, _, _)
cancel_loop(wl, i, r) ==
    IF i > Len(wl) THEN wl
    ELSE IF wl[i] = r THEN cancel_loop(Remove(wl, r), i + 1, r)
    ELSE cancel_loop(wl, i + 1, r)

cancel_ride_Noop(wl, r) == wl

cancel_ride_Clear(wl, r) == <<>>

cancel_ride(wl, r) == cancel_loop(wl, 1, r)

\* ------------------------------------------------------------ constructors
CancelGuard_Always(status) == TRUE

CancelGuard_Never(status) == FALSE

\* Cancellation.do acts only on a rider that is not SATISFIED
CancelGuard(status) == status # SATISFIED

CancellationTime_NoPatience(timestamp, patience) == timestamp

\* timestamp of the Cancellation returned by RiderRequest.do
CancellationTime(timestamp, patience) == timestamp + patience

RiderRequest(timestamp, r) == Event("RiderRequest", timestamp, r, None)
DriverRequest(timestamp, d) == Event("DriverRequest", timestamp, None, d)
Cancellation(timestamp, r) == Event("Cancellation", timestamp, r, None)
Pickup(timestamp, r, d) == Event("Pickup", timestamp, r, d)
Dropoff(timestamp, r, d) == Event("Dropoff", timestamp, r, d)

drop_off_time_Round(origin, destination, speed) ==
    Round(manhattan_distance(origin, destination), speed)

\* Pickup.do: the ride lasts manhattan_distance(origin, destination) // speed
drop_off_time(origin, destination, speed) ==
    manhattan_distance(origin, destination) \div speed

NoShowSuccessors_Retry(timestamp, r, d) == <<Pickup(timestamp, r, d)>>

\* Pickup.do for a cancelled rider returns one DriverRequest for the driver
NoShowSuccessors(timestamp, r, d) == <<DriverRequest(timestamp, d)>>

DropoffSuccessors_None(timestamp, d) == <<>>

DropoffSuccessors_Later(timestamp, d) == <<DriverRequest(timestamp + 1, d)>>

\* Dropoff.do returns one DriverRequest for the driver at the same timestamp
DropoffSuccessors(timestamp, d) == <<DriverRequest(timestamp, d)>>

PickupInit_Noop(drv, r, d) == drv

\* Pickup.__init__ moves the driver to the rider's origin
PickupInit(drv, r, d) == [drv EXCEPT ![d].location = rider[r].origin]

\* Dropoff.__init__ moves the driver to the rider's destination
DropoffInit(drv, r, d) == [drv EXCEPT ![d].location = rider[r].destination]

\* ------------------------------------------------------- initial event list
RiderRecs(P) ==
    {NewRider(o, Dest, p) : o \in Locs, p \in P}

\* the first driver has any speed, the other drivers have speed 1
DriverParams(d) == IF d = DriverSeq[1] THEN Locs \X Speeds ELSE Locs \X {1}

\* an input list names both riders and one or two drivers
DriverSets == {{DriverSeq[i] : i \in 1 .. n} : n \in 1 .. Len(DriverSeq)}

Pos(s, x) == CHOOSE i \in DOMAIN s : s[i] = x

Ordered(s, ids) ==
    \A i, j \in DOMAIN ids : i < j => Pos(s, ids[i]) < Pos(s, ids[j])

\* input lists are chronological; the participants are interchangeable, so
\* the riders (and the drivers) appear in the order of their names
Orders(D) ==
    {s \in [1 .. Cardinality(RiderIds \cup D) -> RiderIds \cup D] :
        /\ \A i, j \in DOMAIN s : i # j => s[i] # s[j]
        /\ Ordered(s, RiderSeq)
        /\ Ordered(s, SubSeq(DriverSeq, 1, Cardinality(D)))}

Stamps(n) ==
    {ts \in [1 .. n -> Times] :
        \A i, j \in DOMAIN ts : i < j => ts[i] <= ts[j]}

InitialEvent(id, timestamp) ==
    IF id \in RiderIds THEN RiderRequest(timestamp, id) ELSE DriverRequest(timestamp, id)

InitWith(P) ==
    /\ rider \in [RiderIds -> RiderRecs(P)]
    /\ \E D \in DriverSets :
          /\ \E ls \in {f \in [D -> Locs \X Speeds] :
                            \A d \in D : f[d] \in DriverParams(d)} :
                driver = [d \in D |-> NewDriver(d, ls[d][1], ls[d][2])]
          /\ \E ord \in Orders(D) : \E ts \in Stamps(Len(ord)) :
                queue = AddAll(<<>>, [i \in DOMAIN ord |-> InitialEvent(ord[i], ts[i])])
    /\ waitlist = <<>>
    /\ drivers = <<>>
    /\ log = <<>>
    /\ last = [event |-> NoEvent, events |-> <<>>]
    /\ lastcall = NoCall
    /\ requested = {}
    /\ waited = {}

Init == InitWith(Patiences)

InitAny == InitWith(AnyPatiences)

\* ------------------------------------------------------------- event steps
\* one iteration of the scheduler loop: pop the earliest event, do() it,
\* add every returned event to the queue
Pop(kind) == queue # <<>> /\ Head(queue).kind = kind

Finish(e, events) ==
    /\ queue' = AddAll(Tail(queue), events)
    /\ last' = [event |-> e, events |-> events]
    /\ UNCHANGED requested

DoRiderRequest ==
    /\ Pop("RiderRequest")
    /\ LET e == Head(queue)
           r == e.rider
           res == request_driver(waitlist, drivers, driver, r, rider[r].origin)
           d == res.ret
       IN  /\ log' = notify(log, e.timestamp, RIDER, REQUEST, r, rider[r].origin)
           /\ waitlist' = res.waitlist
           /\ drivers' = res.drivers
           /\ lastcall' = [op |-> "request_driver", arg |-> r, ret |-> d]
           /\ waited' = IF drivers = <<>> THEN waited \cup {r} ELSE waited
           /\ IF d # None
              THEN LET travel_time == get_travel_time(driver[d], rider[r].origin)
                       started == [driver EXCEPT ![d] = start_drive_obj(@)]
                   IN  /\ driver' = PickupInit(started, r, d)
                       /\ Finish(e, <<Pickup(e.timestamp + travel_time, r, d),
                                      Cancellation(CancellationTime(e.timestamp, rider[r].patience), r)>>)
              ELSE /\ driver' = driver
                   /\ Finish(e, <<Cancellation(CancellationTime(e.timestamp, rider[r].patience), r)>>)
           /\ UNCHANGED rider

DoDriverRequest ==
    /\ Pop("DriverRequest")
    /\ LET e == Head(queue)
           d == e.driver
           res == request_rider(waitlist, drivers, driver, d)
           r == res.ret
       IN  /\ log' = notify(log, e.timestamp, DRIVER, REQUEST, driver[d].identifier,
                            driver[d].location)
           /\ waitlist' = res.waitlist
           /\ drivers' = res.drivers
           /\ lastcall' = [op |-> "request_rider", arg |-> d, ret |-> r]
           /\ IF r # None
              THEN LET travel_time == get_travel_time(driver[d], rider[r].origin)
                       started == [driver EXCEPT ![d] = start_drive_obj(@)]
                   IN  /\ driver' = PickupInit(started, r, d)
                       /\ Finish(e, <<Pickup(e.timestamp + Abs(travel_time), r, d)>>)
              ELSE /\ driver' = driver
                   /\ Finish(e, <<>>)
           /\ UNCHANGED <<rider, waited>>

DoCancellation ==
    /\ Pop("Cancellation")
    /\ LET e == Head(queue)
           r == e.rider
       IN  /\ IF CancelGuard(rider[r].status)
              THEN /\ rider' = [rider EXCEPT ![r].status = CANCELLED]
                   /\ log' = notify(log, e.timestamp, RIDER, CANCEL, r, rider[r].origin)
                   /\ waitlist' = cancel_ride(waitlist, r)
                   /\ lastcall' = [op |-> "cancel_ride", arg |-> r, ret |-> None]
              ELSE /\ UNCHANGED <<rider, log, waitlist>>
                   /\ lastcall' = NoCall
           /\ Finish(e, <<>>)
           /\ UNCHANGED <<driver, drivers, waited>>

DoPickup ==
    /\ Pop("Pickup")
    /\ LET e == Head(queue)
           r == e.rider
           d == e.driver
           log1 == notify(log, e.timestamp, RIDER, PICKUP, r, rider[r].origin)
       IN  /\ log' = notify(log1, e.timestamp, DRIVER, PICKUP, driver[d].identifier,
                            driver[d].location)
           /\ lastcall' = NoCall
           /\ IF rider[r].status = CANCELLED
              THEN /\ driver' = [driver EXCEPT ![d].destination = NoDestination]
                   /\ rider' = rider
                   /\ Finish(e, NoShowSuccessors(e.timestamp, r, d))
              ELSE IF rider[r].status = WAITING
              THEN LET travel_time == get_travel_time(driver[d], rider[r].origin)
                       dot == drop_off_time(rider[r].origin, rider[r].destination,
                                            driver[d].speed)
                       started ==
                           [driver EXCEPT ![d] =
                               start_drive_obj([@ EXCEPT !.destination = rider[r].destination])]
                   IN  /\ driver' = DropoffInit(started, r, d)
                       /\ rider' = [rider EXCEPT ![r].status = SATISFIED]
                       /\ Finish(e, <<Dropoff(e.timestamp + Abs(travel_time) + dot, r, d)>>)
              ELSE /\ UNCHANGED <<driver, rider>>
                   /\ Finish(e, <<>>)
           /\ UNCHANGED <<waitlist, drivers, waited>>

DoDropoff ==
    /\ Pop("Dropoff")
    /\ LET e == Head(queue)
           r == e.rider
           d == e.driver
       IN  /\ log' = notify(log, e.timestamp, DRIVER, DROPOFF, driver[d].identifier,
                            driver[d].location)
           /\ lastcall' = NoCall
           /\ rider' = [rider EXCEPT ![r].status = SATISFIED]
           /\ driver' = [driver EXCEPT ![d].destination = NoDestination]
           /\ Finish(e, DropoffSuccessors(e.timestamp, d))
           /\ UNCHANGED <<waitlist, drivers, waited>>

Next ==
    \/ DoRiderRequest
    \/ DoDriverRequest
    \/ DoCancellation
    \/ DoPickup
    \/ DoDropoff

Spec == Init /\ [][Next]_vars

SpecAny == InitAny /\ [][Next]_vars

\* ------------------------------------------------- runs over a wider geometry
\* one driver and two riders placed so that the distances 0, 1, 2, 11, 12
\* and 13 occur, with speeds up to MaxSpeed + 1
TravelLocs ==
    {Location(0, 0), Location(0, 1), Location(1, 1), Location(0, 2), Location(6, 7)}
TravelSpeeds == 1 .. (MaxSpeed + 1)
TravelLists ==
    {<<DriverRequest(0, "d1"), RiderRequest(0, "r1"), RiderRequest(1, "r2")>>,
     <<RiderRequest(0, "r1"), DriverRequest(1, "d1"), RiderRequest(1, "r2")>>}

TravelInit ==
    /\ rider \in [RiderIds -> {NewRider(o, Dest, MaxPatience) : o \in TravelLocs}]
    /\ \E l \in TravelLocs, s \in TravelSpeeds :
          driver = [d \in {"d1"} |-> NewDriver(d, l, s)]
    /\ \E events \in TravelLists : queue = AddAll(<<>>, events)
    /\ waitlist = <<>>
    /\ drivers = <<>>
    /\ log = <<>>
    /\ last = [event |-> NoEvent, events |-> <<>>]
    /\ lastcall = NoCall
    /\ requested = {}
    /\ waited = {}

TravelSpec == TravelInit /\ [][Next]_vars

\* ------------------------------------------------- dispatcher called directly
\* any sequence of request_driver / request_rider / cancel_ride calls on an
\* empty Dispatcher; a rider requests a driver at most once
\* three Driver objects; the third may carry the identifier of the first
DispDriverIds == {"d1", "d2", "d3"}
DispIdentifiers == [d1 : {"d1"}, d2 : {"d2"}, d3 : {"d3", "d1"}]
DispRiderIds == {"r1", "r2", "r3"}
DispLocs == {Location(0, 2), Location(2, 0), Location(1, 4), Location(3, 6)}
DispOrigins == {Location(0, 0), Location(1, 4)}
DispDriverLocs == [d1 : DispLocs, d2 : DispLocs, d3 : {Location(0, 2), Location(3, 6)}]
DispRiderOrigins == [r1 : DispOrigins, r2 : {Location(0, 0)}, r3 : {Location(1, 4)}]

DispInit ==
    /\ \E os \in DispRiderOrigins :
          rider = [r \in DispRiderIds |-> NewRider(os[r], Location(0, 0), 0)]
    /\ \E ids \in DispIdentifiers, ls \in DispDriverLocs :
          driver = [d \in DispDriverIds |-> NewDriver(ids[d], ls[d], 1)]
    /\ waitlist = <<>>
    /\ drivers = <<>>
    /\ queue = <<>>
    /\ log = <<>>
    /\ last = [event |-> NoEvent, events |-> <<>>]
    /\ lastcall = NoCall
    /\ requested = {}
    /\ waited = {}

CallRequestDriver ==
    \E r \in DispRiderIds \ requested :
        LET res == request_driver(waitlist, drivers, driver, r, rider[r].origin)
        IN  /\ waitlist' = res.waitlist
            /\ drivers' = res.drivers
            /\ lastcall' = [op |-> "request_driver", arg |-> r, ret |-> res.ret]
            /\ requested' = requested \cup {r}
            /\ waited' = IF drivers = <<>> THEN waited \cup {r} ELSE waited
            /\ UNCHANGED <<rider, driver, queue, log, last>>

CallRequestRider ==
    \E d \in DispDriverIds :
        LET res == request_rider(waitlist, drivers, driver, d)
        IN  /\ waitlist' = res.waitlist
            /\ drivers' = res.drivers
            /\ lastcall' = [op |-> "request_rider", arg |-> d, ret |-> res.ret]
            /\ UNCHANGED <<rider, driver, queue, log, last, requested, waited>>

CallCancelRide ==
    \E r \in DispRiderIds :
        /\ waitlist' = cancel_ride(waitlist, r)
        /\ lastcall' = [op |-> "cancel_ride", arg |-> r, ret |-> None]
        /\ UNCHANGED <<rider, driver, drivers, queue, log, last, requested, waited>>

DispNext ==
    \/ CallRequestDriver
    \/ CallRequestRider
    \/ CallCancelRide

DispSpec == DispInit /\ [][DispNext]_vars

\* ------------------------------------------------------- replayed runs
\* the input lists of Init for riders of patience 1 and drivers of speed 1
ReplayInit ==
    /\ rider \in [RiderIds -> RiderRecs({1})]
    /\ \E D \in DriverSets :
          /\ \E ls \in [D -> Locs] :
                driver = [d \in D |-> NewDriver(d, ls[d], 1)]
          /\ \E ord \in Orders(D) : \E ts \in Stamps(Len(ord)) :
                queue = AddAll(<<>>, [i \in DOMAIN ord |-> InitialEvent(ord[i], ts[i])])
    /\ waitlist = <<>>
    /\ drivers = <<>>
    /\ log = <<>>
    /\ last = [event |-> NoEvent, events |-> <<>>]
    /\ lastcall = NoCall
    /\ requested = {}
    /\ waited = {}

ReplaySpec == ReplayInit /\ [][Next]_vars

\* the input lists of Init that name both drivers, for riders of patience 1
\* and drivers of speed 1 that start at the same place
FairInit ==
    /\ rider \in [RiderIds -> RiderRecs({1})]
    /\ driver = [d \in DriverIds |-> NewDriver(d, Location(0, 0), 1)]
    /\ \E ord \in Orders(DriverIds) : \E ts \in Stamps(Len(ord)) :
          queue = AddAll(<<>>, [i \in DOMAIN ord |-> InitialEvent(ord[i], ts[i])])
    /\ waitlist = <<>>
    /\ drivers = <<>>
    /\ log = <<>>
    /\ last = [event |-> NoEvent, events |-> <<>>]
    /\ lastcall = NoCall
    /\ requested = {}
    /\ waited = {}

\* the scheduler keeps popping and executing while the queue is not empty
FairSpec == FairInit /\ [][Next]_vars /\ WF_vars(Next)

\* ------------------------------------------ input with negative timestamps
\* input lines may carry the timestamp -1 and riders any patience; every
\* driver starts at the same place with speed 1
AnyTimes == (-1) .. MaxTime

AnyStamps(n) ==
    {ts \in [1 .. n -> AnyTimes] :
        \A i, j \in DOMAIN ts : i < j => ts[i] <= ts[j]}

RejectInit ==
    /\ rider \in [RiderIds -> RiderRecs(AnyPatiences)]
    /\ \E D \in DriverSets :
          /\ driver = [d \in D |-> NewDriver(d, Location(0, 0), 1)]
          /\ \E ord \in Orders(D) : \E ts \in AnyStamps(Len(ord)) :
                queue = AddAll(<<>>, [i \in DOMAIN ord |-> InitialEvent(ord[i], ts[i])])
    /\ waitlist = <<>>
    /\ drivers = <<>>
    /\ log = <<>>
    /\ last = [event |-> NoEvent, events |-> <<>>]
    /\ lastcall = NoCall
    /\ requested = {}
    /\ waited = {}

RejectSpec == RejectInit /\ [][Next]_vars

\* ------------------------------------------------- runs with three riders
\* three riders at the same origin are requested in the order of their
\* names and one driver of speed 1 requests a rider after any number of them
WaitRiderSeq == <<"r1", "r2", "r3">>

WaitLists(ts) ==
    {[i \in 1 .. 4 |->
         IF i <= k THEN RiderRequest(ts[i], WaitRiderSeq[i])
         ELSE IF i = k + 1 THEN DriverRequest(ts[i], "d1")
         ELSE RiderRequest(ts[i], WaitRiderSeq[i - 1])] : k \in 0 .. 3}

WaitInit ==
    /\ rider \in [Range(WaitRiderSeq) ->
                     {NewRider(Location(0, 0), Dest, p) : p \in Patiences}]
    /\ \E l \in Locs : driver = [d \in {"d1"} |-> NewDriver(d, l, 1)]
    /\ \E ts \in Stamps(4) : \E events \in WaitLists(ts) :
          queue = AddAll(<<>>, events)
    /\ waitlist = <<>>
    /\ drivers = <<>>
    /\ log = <<>>
    /\ last = [event |-> NoEvent, events |-> <<>>]
    /\ lastcall = NoCall
    /\ requested = {}
    /\ waited = {}

WaitSpec == WaitInit /\ [][Next]_vars

\* ------------------------------------------------- start_ride called directly
pickedup_IfWaiting(r) == IF r.status = WAITING THEN [r EXCEPT !.status = SATISFIED] ELSE r

\* Rider.pickedup: the status becomes SATISFIED
pickedup(r) == [r EXCEPT !.status = SATISFIED]

\* Driver.start_ride: [ret, rider, driver]
start_ride(d, r) ==
    [ret |-> get_travel_time(d, r.destination), rider |-> pickedup(r), driver |-> d]

\* riders in any status, a driver with or without a destination; start_ride
\* may be called for any rider, any number of times
RideStatuses == {WAITING, CANCELLED, SATISFIED}
RideLocs == {Location(0, 0), Location(1, 1), Location(1, 2), Location(9, 0)}
RideDestinations == {NoDestination, Dest}

RideInit ==
    /\ rider \in [RiderIds ->
                     {[NewRider(Location(8, 9), l, 0) EXCEPT !.status = st] :
                          l \in {Dest, Location(9, 0)}, st \in RideStatuses}]
    /\ \E l \in RideLocs, s \in Speeds, dst \in RideDestinations :
          driver = [d \in {"d1"} |-> [NewDriver(d, l, s) EXCEPT !.destination = dst]]
    /\ lastcall = [op |-> "none", arg |-> None, ret |-> 0]
    /\ waitlist = <<>>
    /\ drivers = <<>>
    /\ queue = <<>>
    /\ log = <<>>
    /\ last = [event |-> NoEvent, events |-> <<>>]
    /\ requested = {}
    /\ waited = {}

CallStartRide ==
    \E r \in DOMAIN rider :
        LET res == start_ride(driver["d1"], rider[r])
        IN  /\ rider' = [rider EXCEPT ![r] = res.rider]
            /\ driver' = [driver EXCEPT !["d1"] = res.driver]
            /\ lastcall' = [op |-> "start_ride", arg |-> r, ret |-> res.ret]
            /\ UNCHANGED <<waitlist, drivers, queue, log, last, requested, waited>>

RideNext == CallStartRide

RideSpec == RideInit /\ [][RideNext]_vars

\* ------------------------------------------------- deserialize_location
\* a string is a sequence of one-character strings
MaxCoord == 12
Coords == 0 .. MaxCoord
DigitChars == <<"0", "1", "2", "3", "4", "5", "6", "7", "8", "9">>

\* str(n) for n >= 0: the decimal rendering of n
RECURSIVE Decimal(_)
Decimal(n) ==
    IF n < 10 THEN <<DigitChars[n + 1]>>
    ELSE Decimal(n \div 10) \o <<DigitChars[(n % 10) + 1]>>

\* the text 'row,col' of an input line
LocationStr(row, column) == Decimal(row) \o <<",">> \o Decimal(column)

\* the outcome of a call that raises ValueError
ValueError == [row |-> -1, column |-> -1]

IsDigit(c) == \E k \in DOMAIN DigitChars : DigitChars[k] = c

\* int(c) of a one-character string that is a digit
IntOfChar(c) == (CHOOSE k \in DOMAIN DigitChars : DigitChars[k] = c) - 1

\* deserialize_location reads the characters at Python indexes 0 and 2
deserialize_location(location_str) ==
    IF IsDigit(location_str[1]) /\ IsDigit(location_str[3])
    THEN Location(IntOfChar(location_str[1]), IntOfChar(location_str[3]))
    ELSE ValueError

ParseInit ==
    /\ \E row, column \in Coords :
          lastcall = [op |-> "input", arg |-> LocationStr(row, column), ret |-> ValueError]
    /\ rider = <<>>
    /\ driver = <<>>
    /\ waitlist = <<>>
    /\ drivers = <<>>
    /\ queue = <<>>
    /\ log = <<>>
    /\ last = [event |-> NoEvent, events |-> <<>>]
    /\ requested = {}
    /\ waited = {}

CallDeserializeLocation ==
    /\ lastcall.op = "input"
    /\ lastcall' = [op |-> "deserialize_location", arg |-> lastcall.arg,
                    ret |-> deserialize_location(lastcall.arg)]
    /\ UNCHANGED <<rider, driver, waitlist, drivers, queue, log, last, requested,
                   waited>>

ParseNext == CallDeserializeLocation

ParseSpec == ParseInit /\ [][ParseNext]_vars

\* ================================================================== claims
Executed == last.event

\* C1: a rider that is CANCELLED or SATISFIED keeps that status in every
\* later step (Cancellation, Pickup and Dropoff included)
C1_StatusMonotone ==
    [][\A r \in RiderIds :
          rider[r].status # WAITING => rider'[r].status = rider[r].status]_vars

\* a Pickup has executed for a rider that was already CANCELLED
C1_Witness ==
    /\ Executed.kind = "Pickup"
    /\ rider[Executed.rider].status = CANCELLED

\* C2: the timestamp of an executed event is never smaller than the
\* timestamp of the event executed immediately before it
C2_MonotoneTime ==
    [][Executed.kind # "none" => last'.event.timestamp >= Executed.timestamp]_vars

\* C3: a driver returned by request_driver is not in the roster after the
\* call, a rider returned by request_rider is not on the waitlist after it
C3_ReturnedIsRemoved ==
    /\ (lastcall.op = "request_driver" /\ lastcall.ret # None)
           => lastcall.ret \notin Range(drivers)
    /\ (lastcall.op = "request_rider" /\ lastcall.ret # None)
           => lastcall.ret \notin Range(waitlist)

\* request_driver returned one of three idle drivers
C3_Witness ==
    /\ lastcall.op = "request_driver"
    /\ lastcall.ret # None
    /\ Len(drivers) = 2

DistanceTo(d, r) == manhattan_distance(driver[d].location, rider[r].origin)

\* C4: with a non-empty roster request_driver returns a roster driver whose
\* distance to the rider's origin is minimal over the roster
C4_NearestDriver ==
    [][(lastcall'.op = "request_driver" /\ drivers # <<>>) =>
          /\ lastcall'.ret \in Range(drivers)
          /\ \A x \in Range(drivers) :
                DistanceTo(lastcall'.ret, lastcall'.arg) <= DistanceTo(x, lastcall'.arg)]_vars

\* the driver at distance 2 was returned, those at distances 5 and 9 remain
C4_Witness ==
    /\ lastcall.op = "request_driver"
    /\ lastcall.ret # None
    /\ DistanceTo(lastcall.ret, lastcall.arg) = 2
    /\ Len(drivers) = 2
    /\ {DistanceTo(drivers[1], lastcall.arg), DistanceTo(drivers[2], lastcall.arg)} = {5, 9}

FirstNearest(ds, r) ==
    ds[CHOOSE i \in DOMAIN ds :
          /\ \A j \in DOMAIN ds : DistanceTo(ds[i], r) <= DistanceTo(ds[j], r)
          /\ \A j \in DOMAIN ds : DistanceTo(ds[j], r) = DistanceTo(ds[i], r) => i <= j]

\* C5: among the idle drivers at the minimum distance request_driver returns
\* the one that comes first in roster order
C5_TieFirstInserted ==
    [][(lastcall'.op = "request_driver" /\ drivers # <<>>) =>
          lastcall'.ret = FirstNearest(drivers, lastcall'.arg)]_vars

\* C6: with a non-empty waitlist request_rider returns the front rider,
\* removes exactly that rider keeping the order of the others, and leaves
\* the roster as it was
C6_FrontRider ==
    [][(lastcall'.op = "request_rider" /\ waitlist # <<>>) =>
          /\ lastcall'.ret = Head(waitlist)
          /\ waitlist' = Tail(waitlist)
          /\ drivers' = drivers]_vars

\* the returned front rider is farther from the driver than the rider that
\* is still waiting
C6_Witness ==
    /\ lastcall.op = "request_rider"
    /\ lastcall.ret # None
    /\ waitlist # <<>>
    /\ DistanceTo(lastcall.arg, lastcall.ret) > DistanceTo(lastcall.arg, waitlist[1])

IsNote(n, kind, action, id) == n.kind = kind /\ n.action = action /\ n.id = id

\* timestamp at which the rider's RiderRequest executed
RequestTime(r) ==
    log[CHOOSE i \in DOMAIN log : IsNote(log[i], RIDER, REQUEST, r)].timestamp

CancelTs(r) == RequestTime(r) + rider[r].patience

\* C7: a Pickup whose timestamp is larger than that of the rider's
\* Cancellation executes after it, finds the rider CANCELLED, returns only
\* a DriverRequest for its driver at its own timestamp, and the rider stays
\* CANCELLED with no Dropoff ever queued for it
C7_CancelBeforePickup ==
    /\ \A i \in DOMAIN log :
          (log[i].kind = RIDER /\ log[i].action = PICKUP
             /\ CancelTs(log[i].id) < log[i].timestamp) =>
              /\ rider[log[i].id].status = CANCELLED
              /\ \E j \in 1 .. (i - 1) :
                    /\ IsNote(log[j], RIDER, CANCEL, log[i].id)
                    /\ log[j].timestamp = CancelTs(log[i].id)
              /\ \A k \in DOMAIN queue :
                    ~(queue[k].kind = "Dropoff" /\ queue[k].rider = log[i].id)
    /\ (Executed.kind = "Pickup" /\ CancelTs(Executed.rider) < Executed.timestamp) =>
          last.events = <<DriverRequest(Executed.timestamp, Executed.driver)>>

\* a Pickup scheduled after the rider's Cancellation has executed
C7_Witness ==
    /\ Executed.kind = "Pickup"
    /\ CancelTs(Executed.rider) < Executed.timestamp
    /\ Executed.timestamp > RequestTime(Executed.rider)

\* C8: a Cancellation executed for a SATISFIED rider changes neither the
\* riders, nor the notifications, nor the waitlist, nor the roster
C8_CancelSatisfiedNoop ==
    [][(Pop("Cancellation") /\ rider[Head(queue).rider].status = SATISFIED) =>
          /\ rider' = rider
          /\ log' = log
          /\ waitlist' = waitlist
          /\ drivers' = drivers
          /\ driver' = driver]_vars

\* a Cancellation has executed for a rider that was picked up before
C8_Witness ==
    /\ Executed.kind = "Cancellation"
    /\ rider[Executed.rider].status = SATISFIED

RECURSIVE Without(_, _)
Without(s, x) ==
    IF s = <<>> THEN <<>>
    ELSE IF Head(s) = x THEN Without(Tail(s), x)
    ELSE <<Head(s)>> \o Without(Tail(s), x)

\* C9: a Cancellation executed at T for a rider that is not SATISFIED sets
\* it CANCELLED, sends one RIDER CANCEL notification stamped T, takes the
\* rider off the waitlist, keeps the roster and returns no event
C9_CancelEffect ==
    [][(Pop("Cancellation") /\ rider[Head(queue).rider].status # SATISFIED) =>
          LET e == Head(queue)
          IN  /\ rider' = [rider EXCEPT ![e.rider].status = CANCELLED]
              /\ log' = Append(log, [timestamp |-> e.timestamp, kind |-> RIDER,
                                      action |-> CANCEL, id |-> e.rider,
                                      location |-> rider[e.rider].origin])
              /\ waitlist' = Without(waitlist, e.rider)
              /\ drivers' = drivers
              /\ driver' = driver
              /\ last'.events = <<>>
              /\ queue' = Tail(queue)]_vars

\* a waiting rider was cancelled and the other rider is still waiting
C9_Witness ==
    /\ Executed.kind = "Cancellation"
    /\ lastcall.op = "cancel_ride"
    /\ rider[Executed.rider].status = CANCELLED
    /\ waitlist # <<>>
    /\ \A i \in DOMAIN log : ~IsNote(log[i], RIDER, PICKUP, Executed.rider)

\* C10: RiderRequest at T returns one Cancellation for the rider at
\* T + patience, preceded by one Pickup at T + travel time for the rider and
\* the matched driver exactly when the dispatcher returned a driver
C10_RiderRequestEvents ==
    [][Pop("RiderRequest") =>
          LET e == Head(queue)
              r == e.rider
              d == lastcall'.ret
              cancel == Cancellation(e.timestamp + rider[r].patience, r)
          IN  /\ lastcall'.op = "request_driver"
              /\ lastcall'.arg = r
              /\ (d = None) <=> (drivers = <<>>)
              /\ IF d # None
                 THEN last'.events =
                        <<Pickup(e.timestamp + get_travel_time(driver[d], rider[r].origin),
                                 r, d), cancel>>
                 ELSE last'.events = <<cancel>>]_vars

\* a RiderRequest was matched to a driver that has to travel
C10_Witness ==
    /\ Executed.kind = "RiderRequest"
    /\ Len(last.events) = 2
    /\ last.events[1].timestamp > Executed.timestamp
    /\ rider[Executed.rider].patience > 0

\* C11: a Pickup executed at T for a WAITING rider makes the rider SATISFIED
\* in that step, sets the driver's destination to the rider's destination
\* and returns exactly one event, the Dropoff of that rider and driver at
\* T + travel time to the origin + floor(distance(origin, destination) / speed)
C11_PickupWaiting ==
    [][(Pop("Pickup") /\ rider[Head(queue).rider].status = WAITING) =>
          LET e == Head(queue)
              r == e.rider
              d == e.driver
          IN  /\ rider' = [rider EXCEPT ![r].status = SATISFIED]
              /\ driver'[d].destination = rider[r].destination
              /\ last'.event = e
              /\ last'.events =
                     <<Dropoff(e.timestamp
                                 + get_travel_time(driver[d], rider[r].origin)
                                 + (manhattan_distance(rider[r].origin, rider[r].destination)
                                      \div driver[d].speed),
                               r, d)>>]_vars

\* a Pickup for a waiting rider three blocks from the destination and a
\* driver of speed 2 has executed: the Dropoff is one time unit later
C11_Witness ==
    /\ Executed.kind = "Pickup"
    /\ last.events # <<>>
    /\ last.events[1].kind = "Dropoff"
    /\ last.events[1].timestamp = Executed.timestamp + 1
    /\ driver[Executed.driver].speed = 2
    /\ rider[Executed.rider].status = SATISFIED
    /\ rider[Executed.rider].origin = Location(0, 0)

\* C12: a Dropoff executed at T sends a DRIVER DROPOFF notification stamped
\* T, leaves the rider SATISFIED, clears the driver's destination and returns
\* exactly one event, a DriverRequest for the same driver at T
C12_Dropoff ==
    [][Pop("Dropoff") =>
          LET e == Head(queue)
              r == e.rider
              d == e.driver
          IN  /\ Len(log') = Len(log) + 1
              /\ SubSeq(log', 1, Len(log)) = log
              /\ IsNote(log'[Len(log')], DRIVER, DROPOFF, driver[d].identifier)
              /\ log'[Len(log')].timestamp = e.timestamp
              /\ rider'[r].status = SATISFIED
              /\ driver'[d].destination = NoDestination
              /\ last'.event = e
              /\ last'.events = <<DriverRequest(e.timestamp, d)>>]_vars

\* a Dropoff has executed at a time later than 0
C12_Witness ==
    /\ Executed.kind = "Dropoff"
    /\ Executed.timestamp > 0
    /\ last.events = <<DriverRequest(Executed.timestamp, Executed.driver)>>
    /\ driver[Executed.driver].destination = NoDestination

\* C13: a DriverRequest executed at T with a non-empty waitlist matches the
\* front rider, returns exactly one Pickup for that rider and this driver at
\* T + the driver's travel time to the rider's origin and keeps the driver
\* out of the roster; with an empty waitlist the driver ends up in the
\* roster and no event is returned
C13_DriverRequest ==
    [][Pop("DriverRequest") =>
          LET e == Head(queue)
              d == e.driver
          IN  /\ last'.event = e
              /\ IF waitlist # <<>>
                 THEN LET r == Head(waitlist)
                      IN  /\ last'.events =
                                <<Pickup(e.timestamp
                                           + get_travel_time(driver[d], rider[r].origin),
                                         r, d)>>
                          /\ waitlist' = Tail(waitlist)
                          /\ d \notin Range(drivers')
                 ELSE /\ last'.events = <<>>
                      /\ d \in Range(drivers')
                      /\ waitlist' = <<>>]_vars

\* a DriverRequest has matched the front rider while another rider stays
\* on the waitlist, and the Pickup lies later than the request
C13_Witness ==
    /\ Executed.kind = "DriverRequest"
    /\ last.events # <<>>
    /\ last.events[1].kind = "Pickup"
    /\ last.events[1].timestamp > Executed.timestamp
    /\ waitlist # <<>>
    /\ Executed.driver \notin Range(drivers)

\* pending events that reference the driver
PendingFor(d) == {i \in DOMAIN queue : queue[i].driver = d}

\* number of roster entries that are the driver
RosterCount(d) == Cardinality({i \in DOMAIN drivers : drivers[i] = d})

\* C14: every driver named in the input list is held by exactly one owner: it is in the roster
\* once, or exactly one pending DriverRequest, Pickup or Dropoff references
\* it, never both
C14_SingleOwner ==
    \A d \in DOMAIN driver : Cardinality(PendingFor(d)) + RosterCount(d) = 1

\* one driver idles in the roster while the other has a pending Dropoff
C14_Witness ==
    /\ Len(drivers) = 1
    /\ \E i \in DOMAIN queue : queue[i].kind = "Dropoff"

\* C15: every rider on the waitlist has status WAITING and no pending Pickup
\* or Dropoff references it
C15_WaitlistWaiting ==
    \A i \in DOMAIN waitlist :
        /\ rider[waitlist[i]].status = WAITING
        /\ \A j \in DOMAIN queue :
              queue[j].kind \in {"Pickup", "Dropoff"} => queue[j].rider # waitlist[i]

\* a rider waits on the waitlist after the other rider was cancelled
C15_Witness ==
    /\ waitlist # <<>>
    /\ rider[waitlist[1]].status = WAITING
    /\ \E r \in RiderIds : rider[r].status = CANCELLED

\* no two roster entries carry the same driver identifier
NoDuplicateIdentifier(ds) ==
    \A i, j \in DOMAIN ds :
        driver[ds[i]].identifier = driver[ds[j]].identifier => i = j

\* C16: after any sequence of dispatcher calls the roster holds no two
\* entries with the same driver identifier, and request_rider with an empty
\* waitlist for a driver equal to a roster entry leaves the roster unchanged
\* and returns none
C16_NoDuplicateDrivers ==
    [][/\ NoDuplicateIdentifier(drivers')
       /\ (/\ lastcall'.op = "request_rider"
           /\ waitlist = <<>>
           /\ \E i \in DOMAIN drivers :
                 driver[drivers[i]].identifier = driver[lastcall'.arg].identifier)
             => (drivers' = drivers /\ lastcall'.ret = None)]_vars

\* request_rider was called for a second Driver object that carries the
\* identifier of the driver already in the roster
C16_Witness ==
    /\ lastcall.op = "request_rider"
    /\ lastcall.arg = "d3"
    /\ lastcall.ret = None
    /\ waitlist = <<>>
    /\ driver["d3"].identifier = "d1"
    /\ "d1" \in Range(drivers)
    /\ "d3" \notin Range(drivers)

\* C17: cancel_ride removes the rider from the waitlist when present and
\* changes nothing otherwise; the other riders keep their relative order and
\* the roster is unchanged
C17_CancelRide ==
    [][lastcall'.op = "cancel_ride" =>
          /\ waitlist' = Without(waitlist, lastcall'.arg)
          /\ (lastcall'.arg \notin Range(waitlist) => waitlist' = waitlist)
          /\ drivers' = drivers]_vars

\* the second of three waiting riders was cancelled
C17_Witness ==
    /\ lastcall.op = "cancel_ride"
    /\ lastcall.arg = "r2"
    /\ "r2" \in waited
    /\ waitlist = <<"r1", "r3">>

\* position in the log of the rider's RIDER REQUEST notification
RequestPos(r) == CHOOSE i \in DOMAIN log : IsNote(log[i], RIDER, REQUEST, r)

\* positions of the DriverRequests executed after the rider's request
DriverRequestsAfter(r) ==
    {i \in DOMAIN log : i > RequestPos(r) /\ log[i].kind = DRIVER /\ log[i].action = REQUEST}

\* positions of the rider's RIDER CANCEL notifications
CancelNotes(r) == {i \in DOMAIN log : IsNote(log[i], RIDER, CANCEL, r)}

\* no DriverRequest stamped earlier than the rider's Cancellation has executed
\* since the rider's request
NoDriverBefore(r) ==
    \A i \in DriverRequestsAfter(r) : log[i].timestamp >= CancelTs(r)

\* no DriverRequest has executed between the rider's request and the
\* execution of its Cancellation
NoDriverAhead(r) ==
    \A i \in DriverRequestsAfter(r) : \E j \in CancelNotes(r) : j < i

PendingKind(kind, r) == {i \in DOMAIN queue : queue[i].kind = kind /\ queue[i].rider = r}

C19_PositionAtExecution ==
    [][\A d \in DOMAIN driver :
          driver'[d].location # driver[d].location =>
              /\ last'.event.driver = d
              /\ \/ /\ last'.event.kind = "Pickup"
                    /\ driver'[d].location = rider[last'.event.rider].origin
                 \/ /\ last'.event.kind = "Dropoff"
                    /\ driver'[d].location = rider[last'.event.rider].destination]_vars

\* C19 amended: a driver's recorded position changes exactly when a Pickup
\* or Dropoff for it is constructed, i.e. in the step that matches the
\* driver (to the rider's origin) and in the step that executes the Pickup
\* of a waiting rider (to the rider's destination); while a Pickup or
\* Dropoff is pending the driver is already recorded at its destination
C19_PositionAtConstruction ==
    [][/\ \A d \in DOMAIN driver :
             driver'[d].location # driver[d].location =>
                 \E i \in DOMAIN last'.events :
                     /\ last'.events[i].driver = d
                     /\ last'.events[i].kind \in {"Pickup", "Dropoff"}
       /\ \A i \in DOMAIN queue' :
             LET ev == queue'[i]
             IN  /\ ev.kind = "Pickup" =>
                       driver'[ev.driver].location = rider[ev.rider].origin
                 /\ ev.kind = "Dropoff" =>
                       driver'[ev.driver].location = rider[ev.rider].destination]_vars

\* a driver was matched by a RiderRequest, its Pickup lies in the future
\* and it is already recorded at the rider's origin
C19_Witness ==
    /\ Executed.kind = "RiderRequest"
    /\ last.events # <<>>
    /\ last.events[1].kind = "Pickup"
    /\ last.events[1].timestamp > Executed.timestamp
    /\ \E i \in DOMAIN queue : queue[i] = last.events[1]
    /\ driver[last.events[1].driver].location = rider[Executed.rider].origin

\* C20: a driver referenced by a pending Pickup or Dropoff has is_idle false,
\* and a driver in the roster has is_idle true and no destination
C20_IdleStateMachine ==
    \A d \in DOMAIN driver :
        /\ (\E i \in PendingFor(d) : queue[i].kind \in {"Pickup", "Dropoff"})
               => driver[d].is_idle = FALSE
        /\ d \in Range(drivers)
               => (driver[d].is_idle = TRUE /\ driver[d].destination = NoDestination)

\* the sequence without its i-th element
RemoveAt(s, i) == SubSeq(s, 1, i - 1) \o SubSeq(s, i + 1, Len(s))

\* C26: with an empty roster request_driver appends the rider at the tail
\* of the waitlist, returns none and leaves the roster empty; with a
\* non-empty roster it leaves the waitlist unchanged and removes exactly the
\* returned driver from the roster
C26_RequestDriverFrame ==
    [][lastcall'.op = "request_driver" =>
          IF drivers = <<>>
          THEN /\ waitlist' = Append(waitlist, lastcall'.arg)
               /\ lastcall'.ret = None
               /\ drivers' = <<>>
          ELSE /\ waitlist' = waitlist
               /\ lastcall'.ret # None
               /\ \E i \in DOMAIN drivers :
                     /\ drivers[i] = lastcall'.ret
                     /\ drivers' = RemoveAt(drivers, i)]_vars

\* request_driver found no driver and put the rider behind two others
C26_Witness ==
    /\ lastcall.op = "request_driver"
    /\ lastcall.ret = None
    /\ drivers = <<>>
    /\ Len(waitlist) = 3
    /\ waitlist[3] = lastcall.arg

\* C29: after any sequence of dispatcher calls the waitlist and the roster
\* are never both non-empty
C29_NeverBothNonEmpty == waitlist = <<>> \/ drivers = <<>>

\* request_rider handed out the front rider while another rider still
\* waits and no driver is idle
C29_Witness ==
    /\ lastcall.op = "request_rider"
    /\ lastcall.ret # None
    /\ waitlist # <<>>
    /\ drivers = <<>>
    /\ requested = DispRiderIds

\* the Pickup among the events returned by the executed event, if any
ReturnedPickups(events) == {i \in DOMAIN events : events[i].kind = "Pickup"}

\* t is a nearest integer to n / s
Nearest(t, n, s) == t \in Nat /\ Abs(2 * n - 2 * t * s) <= s

\* C27: get_travel_time returns a non-negative integer nearest to
\* manhattan_distance(position, destination) / speed, and the Pickup produced
\* when a RiderRequest or DriverRequest matches is stamped with the request
\* timestamp plus that value (the value start_drive returned)
C27_TravelTime ==
    [][(queue # <<>> /\ Head(queue).kind \in {"RiderRequest", "DriverRequest"}) =>
          \A i \in ReturnedPickups(last'.events) :
              LET p == last'.events[i]
                  t == p.timestamp - Head(queue).timestamp
                  n == manhattan_distance(driver[p.driver].location, rider[p.rider].origin)
              IN  /\ Nearest(t, n, driver[p.driver].speed)
                  /\ t = get_travel_time(driver[p.driver], rider[p.rider].origin)]_vars

\* a driver of speed 3 was matched to a rider 11 blocks away: the Pickup
\* is 4 time units after the request
C27_Witness ==
    /\ Executed.kind \in {"RiderRequest", "DriverRequest"}
    /\ ReturnedPickups(last.events) # {}
    /\ \A i \in ReturnedPickups(last.events) :
          /\ driver[last.events[i].driver].speed = 3
          /\ last.events[i].timestamp = Executed.timestamp + 4
          /\ rider[last.events[i].rider].origin = Location(6, 7)

\* C28: deserialize_location maps the text 'row,col' of any two non-negative
\* integers, multi-digit ones included, to the Location with that row and
\* column
C28_DeserializeLocation ==
    \A row, column \in Coords :
        (lastcall.op = "deserialize_location" /\ lastcall.arg = LocationStr(row, column))
            => lastcall.ret = Location(row, column)

\* C25: a Pickup executed at T sends exactly two notifications stamped T,
\* RIDER PICKUP with the rider's origin and then DRIVER PICKUP with the
\* driver's position, which is the rider's origin, whatever the rider's
\* status is
C25_PickupNotifications ==
    [][Pop("Pickup") =>
          LET e == Head(queue)
              r == e.rider
              d == e.driver
          IN  /\ log' = log \o
                   <<[timestamp |-> e.timestamp, kind |-> RIDER, action |-> PICKUP,
                      id |-> r, location |-> rider[r].origin],
                     [timestamp |-> e.timestamp, kind |-> DRIVER, action |-> PICKUP,
                      id |-> driver[d].identifier, location |-> driver[d].location]>>
              /\ driver[d].location = rider[r].origin]_vars

\* a Pickup has executed for a rider that had cancelled while the driver
\* was on the way; both notifications are the last two of the log
C25_Witness ==
    /\ Executed.kind = "Pickup"
    /\ rider[Executed.rider].status = CANCELLED
    /\ last.events = <<DriverRequest(Executed.timestamp, Executed.driver)>>
    /\ Len(log) >= 2
    /\ IsNote(log[Len(log) - 1], RIDER, PICKUP, Executed.rider)
    /\ IsNote(log[Len(log)], DRIVER, PICKUP, Executed.driver)
    /\ log[Len(log)].location = rider[Executed.rider].origin
    /\ log[Len(log)].timestamp > 0

\* C22: every event returned by executing an event carries a timestamp that
\* is at least the timestamp of the executed event, for every integer
\* patience and every positive speed
C22_SuccessorNotEarlier ==
    [][\A i \in DOMAIN last'.events :
          last'.events[i].timestamp >= last'.event.timestamp]_vars

\* riders whose RiderRequest has executed
Requested(r) == \E i \in DOMAIN log : IsNote(log[i], RIDER, REQUEST, r)

Before(s, a, b) == Pos(s, a) < Pos(s, b)

\* event a was inserted into the queue before event b, where the events of
\* old were queued before the step and those of new are inserted by it
InsertedBefore(old, new, a, b) ==
    \/ a \in Range(old) /\ b \in Range(old) /\ Before(old, a, b)
    \/ a \in Range(old) /\ b \notin Range(old)
    \/ a \notin Range(old) /\ b \notin Range(old) /\ Before(new, a, b)

MaxNotifications == 6 * Cardinality(DOMAIN rider) + Cardinality(DOMAIN driver)

\* C23: for every initial event list the pop-execute-push loop terminates:
\* the queue eventually becomes empty, after a bounded number of executions
C23_Terminates ==
    /\ <>(queue = <<>>)
    /\ [](Len(log) <= MaxNotifications)

\* the queue has drained after a run with a no-show Pickup and a Dropoff
C23_Witness ==
    /\ queue = <<>>
    /\ \E r \in RiderIds : rider[r].status = SATISFIED
    /\ \E r \in RiderIds :
          /\ rider[r].status = CANCELLED
          /\ \E i \in DOMAIN log : IsNote(log[i], RIDER, PICKUP, r)

\* C30: when the queue has drained every rider is CANCELLED or SATISFIED,
\* the waitlist is empty and every driver is in the roster with no
\* destination
C30_DrainedState ==
    queue = <<>> =>
        /\ \A r \in DOMAIN rider : rider[r].status \in {CANCELLED, SATISFIED}
        /\ waitlist = <<>>
        /\ \A d \in DOMAIN driver :
              /\ RosterCount(d) = 1
              /\ driver[d].destination = NoDestination

\* the queue has drained with both drivers back in the roster, one rider
\* dropped off and the other cancelled
C30_Witness ==
    /\ queue = <<>>
    /\ Executed.kind = "DriverRequest"
    /\ Len(drivers) = 2
    /\ \E r \in RiderIds : rider[r].status = SATISFIED
    /\ \E r \in RiderIds : rider[r].status = CANCELLED
    /\ \E i \in DOMAIN log : log[i].kind = DRIVER /\ log[i].action = DROPOFF

\* C31: whenever a Pickup executes the driver's recorded position is the
\* rider's origin, so the travel time to the origin computed in Pickup.do is
\* 0 and the Dropoff of a waiting rider is stamped with the Pickup timestamp
\* + floor(manhattan_distance(origin, destination) / speed)
C31_PickupAtOrigin ==
    [][Pop("Pickup") =>
          LET e == Head(queue)
              r == e.rider
              d == e.driver
          IN  /\ driver[d].location = rider[r].origin
              /\ get_travel_time(driver[d], rider[r].origin) = 0
              /\ rider[r].status = WAITING =>
                    last'.events =
                        <<Dropoff(e.timestamp
                                    + (manhattan_distance(rider[r].origin, rider[r].destination)
                                         \div driver[d].speed),
                                  r, d)>>]_vars

\* a driver of speed 2 had to travel to the rider, other events executed
\* while its Pickup was pending, and the Pickup of the waiting rider
\* returned a Dropoff one time unit later
C31_Witness ==
    /\ Executed.kind = "Pickup"
    /\ Executed.timestamp > RequestTime(Executed.rider)
    /\ \E i \in DOMAIN log :
          /\ i > RequestPos(Executed.rider)
          /\ log[i].action \in {REQUEST, CANCEL}
    /\ last.events = <<Dropoff(Executed.timestamp + 1, Executed.rider, Executed.driver)>>
    /\ driver[Executed.driver].speed = 2

\* the rider's RIDER PICKUP notifications in l: one per executed Pickup
PickupNotesIn(l, r) == {i \in DOMAIN l : IsNote(l[i], RIDER, PICKUP, r)}

PickupNotes(r) == PickupNotesIn(log, r)

\* the events of the given kind for the rider in q
KindIn(q, kind, r) == {i \in DOMAIN q : q[i].kind = kind /\ q[i].rider = r}

\* C32: with every rider requested at most once, a Pickup is created for a
\* rider only when none was created before, a Dropoff only by the Pickup
\* that executes for the rider while it is WAITING (which happens once, as
\* no rider returns to WAITING); a Dropoff executes only for a rider that
\* its executed Pickup made SATISFIED, and a Pickup never executes for a
\* SATISFIED rider, so every executed Pickup returns an event
C32_OnePickupOneDropoff ==
    [][/\ \A i \in DOMAIN last'.events :
             LET ev == last'.events[i]
             IN  /\ ev.kind = "Pickup" =>
                       /\ PickupNotes(ev.rider) = {}
                       /\ PendingKind("Pickup", ev.rider) = {}
                       /\ PendingKind("Dropoff", ev.rider) = {}
                 /\ ev.kind = "Dropoff" =>
                       /\ Pop("Pickup")
                       /\ Head(queue).rider = ev.rider
                       /\ rider[ev.rider].status = WAITING
                       /\ rider'[ev.rider].status = SATISFIED
                       /\ PendingKind("Dropoff", ev.rider) = {}
                       /\ Cardinality(KindIn(queue', "Dropoff", ev.rider)) = 1
       /\ \A r \in DOMAIN rider :
             /\ rider'[r].status = WAITING => rider[r].status = WAITING
             /\ Cardinality(PickupNotesIn(log', r))
                   + Cardinality(KindIn(queue', "Pickup", r)) <= 1
       /\ Pop("Dropoff") =>
             /\ rider[Head(queue).rider].status = SATISFIED
             /\ Cardinality(PickupNotes(Head(queue).rider)) = 1
             /\ CancelNotes(Head(queue).rider) = {}
       /\ Pop("Pickup") =>
             /\ rider[Head(queue).rider].status # SATISFIED
             /\ last'.events # <<>>]_vars

\* a Dropoff has executed for a rider whose Cancellation had executed
\* before it without effect, while the other rider's Pickup was a no-show
C32_Witness ==
    /\ Executed.kind = "Dropoff"
    /\ rider[Executed.rider].status = SATISFIED
    /\ PendingKind("Cancellation", Executed.rider) = {}
    /\ CancelNotes(Executed.rider) = {}
    /\ \E r \in DOMAIN rider :
          /\ rider[r].status = CANCELLED
          /\ PickupNotes(r) # {}

\* C33: when a rider's Pickup and Cancellation carry the same timestamp the
\* order of insertion decides: for a rider matched by its own RiderRequest
\* the Pickup is queued ahead of the Cancellation, executes first and the
\* rider is SATISFIED and never cancelled; for a rider that was waitlisted
\* and matched by a DriverRequest the Cancellation is ahead, the rider is
\* CANCELLED when the Pickup executes and the Pickup is a no-show
C33_TieByInsertion ==
    \A r \in DOMAIN rider :
        /\ \A i \in PendingKind("Pickup", r), j \in PendingKind("Cancellation", r) :
              queue[i].timestamp = queue[j].timestamp =>
                  IF r \in waited THEN j < i ELSE i < j
        /\ \A i \in PickupNotes(r) :
              log[i].timestamp = CancelTs(r) =>
                  IF r \in waited
                  THEN /\ rider[r].status = CANCELLED
                       /\ \E j \in CancelNotes(r) : j < i
                       /\ PendingKind("Dropoff", r) = {}
                       /\ (Executed.kind = "Pickup" /\ Executed.rider = r) =>
                             last.events = <<DriverRequest(Executed.timestamp, Executed.driver)>>
                  ELSE /\ rider[r].status = SATISFIED
                       /\ CancelNotes(r) = {}

\* both cases in one run, with riders of positive patience: one rider was
\* matched by its own request and picked up at its deadline, the other was
\* waitlisted, matched by a driver and cancelled at the Pickup's timestamp
C33_Witness ==
    /\ \E r \in DOMAIN rider \ waited :
          /\ rider[r].patience > 0
          /\ \E i \in PickupNotes(r) : log[i].timestamp = CancelTs(r)
          /\ PendingKind("Cancellation", r) = {}
          /\ rider[r].status = SATISFIED
    /\ \E r \in waited :
          /\ rider[r].patience > 0
          /\ \E i \in PickupNotes(r) : log[i].timestamp = CancelTs(r)
          /\ rider[r].status = CANCELLED

RequestPosIn(l, r) == CHOOSE i \in DOMAIN l : IsNote(l[i], RIDER, REQUEST, r)

\* C35: the waitlist is ordered by the execution order of the riders'
\* RiderRequest events, oldest first, and the rider matched by a
\* DriverRequest was requested before every rider still on the waitlist
C35_WaitlistInRequestOrder ==
    [][/\ \A i, j \in DOMAIN waitlist' :
             i < j => RequestPosIn(log', waitlist'[i]) < RequestPosIn(log', waitlist'[j])
       /\ (lastcall'.op = "request_rider" /\ lastcall'.ret # None) =>
             /\ lastcall'.ret \in Range(waitlist)
             /\ \A k \in DOMAIN waitlist :
                   RequestPos(lastcall'.ret) <= RequestPos(waitlist[k])]_vars

\* the driver was handed the oldest waiting rider while a younger one keeps
\* waiting, after a rider requested between the two had been cancelled on
\* the waitlist
C35_Witness ==
    /\ Executed.kind = "DriverRequest"
    /\ lastcall.ret # None
    /\ waitlist # <<>>
    /\ \E c \in waited :
          /\ rider[c].status = CANCELLED
          /\ RequestPos(lastcall.ret) < RequestPos(c)
          /\ RequestPos(c) < RequestPos(waitlist[1])

\* C36: start_ride(rider) makes the rider SATISFIED whatever its status
\* was, returns the driver's travel time from its position to the rider's
\* destination (9 for a driver of speed 1 at (1,1) and the destination
\* (9,0)) and leaves the driver's position, idle flag and destination as
\* they were
C36_StartRide ==
    [][lastcall'.op = "start_ride" =>
          LET r == lastcall'.arg
              d == driver["d1"]
              n == manhattan_distance(d.location, rider[r].destination)
          IN  /\ rider' = [rider EXCEPT ![r].status = SATISFIED]
              /\ lastcall'.ret = Round(n, d.speed)
              /\ Nearest(lastcall'.ret, n, d.speed)
              /\ (d.location = Location(1, 1) /\ d.speed = 1
                    /\ rider[r].destination = Location(9, 0)) => lastcall'.ret = 9
              /\ driver'["d1"].location = d.location
              /\ driver'["d1"].is_idle = d.is_idle
              /\ driver'["d1"].destination = d.destination
              /\ driver' = driver]_vars

\* start_ride returned 9 for the driver of speed 1 at (1,1), which has a
\* destination, and a rider bound for (9,0); the other rider is CANCELLED
C36_Witness ==
    /\ lastcall.op = "start_ride"
    /\ lastcall.ret = 9
    /\ driver["d1"].location = Location(1, 1)
    /\ driver["d1"].speed = 1
    /\ driver["d1"].destination = Dest
    /\ rider[lastcall.arg].destination = Location(9, 0)
    /\ rider[lastcall.arg].status = SATISFIED
    /\ \E r \in DOMAIN rider : rider[r].status = CANCELLED
====
